---------------------------- MODULE Spec2Model ----------------------------
(***************************************************************************)
(* A model of julian7/magelib's build pipeline core:                       *)
(*   - the per-stage module container (modules.Modules: Add, UnmarshalYAML,*)
(*     Run),                                                               *)
(*   - the pipeline assembled by pipeline.LoadBuildPipeline,               *)
(*   - the artifact store (ctx.Artifacts),                                 *)
(*   - the tar archiving module (internal/modules/archive.Tar).            *)
(* Strings are TLC strings: error messages, kinds and os-arch keys are     *)
(* built with \o exactly as the code builds them with fmt.Sprintf.         *)
(***************************************************************************)
EXTENDS Integers, Sequences, FiniteSets, TLC

(***************************************************************************)
(* Bounds of the model.                                                    *)
(***************************************************************************)
\* Longest configuration sequence of one stage, and most direct Add calls.
MaxEntries == 2
(***************************************************************************)
(* Small helpers.                                                          *)
(***************************************************************************)
Digits == <<"0", "1", "2", "3", "4", "5", "6", "7", "8", "9">>

\* fmt's %d for a natural number.
RECURSIVE Itoa(_)
Itoa(n) == IF n < 10 THEN Digits[n + 1] ELSE Itoa(n \div 10) \o Digits[(n % 10) + 1]

Range(s) == {s[i] : i \in DOMAIN s}

\* The least and the greatest of a non-empty set of numbers.
MinOf(S) == CHOOSE i \in S : \A j \in S : i <= j
MaxOf(S) == CHOOSE i \in S : \A j \in S : j <= i

\* The positions from i on at which sub occurs in str.
Occurrences(str, sub, i) ==
    {k \in i..(Len(str) - Len(sub) + 1) : SubSeq(str, k, k + Len(sub) - 1) = sub}

RECURSIVE SeqsUpTo(_, _)
SeqsUpTo(S, n) ==
    IF n = 0 THEN {<<>>}
    ELSE LET shorter == SeqsUpTo(S, n - 1)
         IN  shorter \cup {Append(s, x) : s \in {t \in shorter : Len(t) = n - 1}, x \in S}

(***************************************************************************)
(* The module registry.  Its code (RegisterModule, LookupModule) is not    *)
(* among the sources; it is the table of the spec's section 4.1: an exact  *)
(* key lookup in a table that is read-only once pipelines are assembled.   *)
(***************************************************************************)
StageNames == <<"setup", "build", "publish">>

RegUniverse ==
    {"setup:env", "setup:project", "setup:git_tag", "setup:skip_publish",
     "*:dump", "build:dump"}

\* The registries considered: everything registered, or one kind missing.
Registries == {RegUniverse} \cup {RegUniverse \ {k} : k \in RegUniverse}

\* The item types a configuration entry or an Add call may name; "nope" is
\* registered for no stage.
ItemTypes == {"env", "dump", "nope"}

VARIABLES
    registry,   \* the registered kinds (fixed after process start)
    mod,        \* ContainerSpec: one module container
    lastCall,   \* ContainerSpec: the last call made on mod, with what it returned
    pipeline,   \* Spec: the containers of the pipeline being assembled, by stage
    loadPc,     \* Spec: where LoadBuildPipeline is: unmarshal, defaults, done, failed
    loadPos,    \* Spec: the stage being decoded, then the default kind being loaded
    loadErr,    \* Spec: the error LoadBuildPipeline returns ("" for nil)
    document,   \* Spec: the configuration entries consumed so far, by stage
    context,    \* the Build Context: project, version, target dir, publish flag, store
    runPc,      \* RunSpec: pending (before a stage), running (in it), done, failed
    runStage,   \* RunSpec: the stage entered or to enter (index into StageNames)
    runMod,     \* RunSpec: the module to run next (index into the container)
    runErr,     \* RunSpec: the error the run returned ("" for nil)
    runLog,     \* RunSpec: history: modules executed, stages skipped, snapshots
    tar,        \* TarSpec: the Tar module's configuration
    tarPc,      \* TarSpec: idle, running (between targets), done, failed, hung
    tarErr,     \* TarSpec: the error Tar.Run returned ("" for nil)
    targets,    \* TarSpec: the runtime's targets: os-arch key -> artifacts
    pending,    \* TarSpec: the keys tarRuntime.run has not ranged over yet
    tarLog      \* TarSpec: history: the store before the run, the diagnostic,
                \* the last target written

loadVars == <<pipeline, loadPc, loadPos, loadErr, document>>
containerVars == <<mod, lastCall>>
runVars == <<context, runPc, runStage, runMod, runErr, runLog>>
tarVars == <<tar, tarPc, tarErr, targets, pending, tarLog>>

LookupModule(reg, kind) == kind \in reg

(***************************************************************************)
(* ctx: the artifact store and the Build Context.                          *)
(***************************************************************************)
FormatRaw == 1
FormatGZip == 2
FormatUPX == 3
FormatTar == 4
FormatZip == 5

Artifact(name, os, arch, format, filename, location) ==
    [Arch |-> arch, Filename |-> filename, Format |-> format,
     Location |-> location, Name |-> name, OS |-> os]

\* A variant of Artifacts.Add that puts the new artifact first.
ArtifactsAdd_Prepend(arts, artifact) == <<artifact>> \o arts

\* Artifacts.Add
ArtifactsAdd(arts, artifact) == Append(arts, artifact)

\* A variant of ByName's loop that collects the matches last first.
RECURSIVE ByNameFrom_LastFirst(_, _, _)
ByNameFrom_LastFirst(arts, name, i) ==
    IF i > Len(arts) THEN <<>>
    ELSE ByNameFrom_LastFirst(arts, name, i + 1)
         \o (IF arts[i].Name = name THEN <<arts[i]>> ELSE <<>>)

\* Artifacts.ByName
RECURSIVE ByNameFrom(_, _, _)
ByNameFrom(arts, name, i) ==
    IF i > Len(arts) THEN <<>>
    ELSE (IF arts[i].Name = name THEN <<arts[i]>> ELSE <<>>) \o ByNameFrom(arts, name, i + 1)

ByName(arts, name) == ByNameFrom(arts, name, 1)

\* Artifact.OsArch
OsArch(art) == art.OS \o "-" \o art.Arch

\* The Build Context, with the fields the sources read.
NewContext(publish, arts) ==
    [ProjectName |-> "proj", Version |-> "1.0", TargetDir |-> "dist",
     Publish |-> publish, Artifacts |-> arts]

NoTar == [Builds |-> <<>>]
NoTarLog == [before |-> <<>>, diag |-> <<>>, target |-> <<>>]
NoRunLog == [executed |-> <<>>, entries |-> <<>>, produced |-> <<>>]

(***************************************************************************)
(* YAML nodes, as far as the container reads them: Kind, and for a mapping *)
(* the flat key, value, key, value ... Content.  Decodes says whether      *)
(* node.Decode into the module's struct succeeds.                          *)
(***************************************************************************)
NilNode == [Kind |-> "nil", Content |-> <<>>, Decodes |-> TRUE]
ScalarNode == [Kind |-> "scalar", Content |-> <<>>, Decodes |-> TRUE]
MappingNode(content, decodes) == [Kind |-> "mapping", Content |-> content, Decodes |-> decodes]
SequenceNode(children) == [Kind |-> "sequence", Content |-> children, Decodes |-> TRUE]

\* The entries a configuration sequence may hold.
ChildNodes ==
    {ScalarNode, MappingNode(<<"name", "x">>, TRUE),
     MappingNode(<<"name", "x", "type", "dump">>, FALSE)}
    \cup {MappingNode(<<"type", t>>, TRUE) : t \in ItemTypes}

(***************************************************************************)
(* modules.Modules                                                         *)
(***************************************************************************)
NewModules(stage) == [Stage |-> stage, Modules |-> <<>>, loaded |-> {}]

\* A variant of isLoaded that never finds a kind loaded.
isLoaded_Never(m, kind) == FALSE

isLoaded(m, kind) == kind \in m.loaded

flagLoaded(m, kind) == [m EXCEPT !.loaded = @ \cup {kind}]

\* A variant of ResolveKind that lacks the "not found" outcome.
ResolveKind_NoCheck(reg, stage, itemType) ==
    LET own == stage \o ":" \o itemType
        any == "*" \o ":" \o itemType
    IN  IF LookupModule(reg, own) THEN [kind |-> own, ok |-> TRUE]
        ELSE [kind |-> any, ok |-> TRUE]

\* A variant of ResolveKind that probes the wildcard first.
ResolveKind_WildcardFirst(reg, stage, itemType) ==
    LET own == stage \o ":" \o itemType
        any == "*" \o ":" \o itemType
    IN  IF LookupModule(reg, any) THEN [kind |-> any, ok |-> TRUE]
        ELSE IF LookupModule(reg, own) THEN [kind |-> own, ok |-> TRUE]
        ELSE [kind |-> any, ok |-> FALSE]

\* The loop of Add over {mod.Stage, "*"}: the first registered kind, and
\* whether one was found.  kind is left at the last one probed.
ResolveKind(reg, stage, itemType) ==
    LET own == stage \o ":" \o itemType
        any == "*" \o ":" \o itemType
    IN  IF LookupModule(reg, own) THEN [kind |-> own, ok |-> TRUE]
        ELSE IF LookupModule(reg, any) THEN [kind |-> any, ok |-> TRUE]
        ELSE [kind |-> any, ok |-> FALSE]

\* A variant of Add that puts the new module first.
Add_Prepend(reg, m, itemType, node, once) ==
    LET r == ResolveKind(reg, m.Stage, itemType)
    IN  IF ~r.ok
        THEN [mod |-> m, err |-> "unknown module " \o m.Stage \o ":" \o itemType]
        ELSE IF once /\ isLoaded(m, r.kind)
        THEN [mod |-> m, err |-> "module " \o r.kind \o " already loaded"]
        ELSE IF node.Kind # "nil" /\ ~node.Decodes
        THEN [mod |-> m, err |-> "cannot decode module " \o r.kind \o ": yaml error"]
        ELSE [mod |-> flagLoaded(
                        [m EXCEPT !.Modules =
                            <<[Type |-> itemType,
                               Pluggable |-> [factory |-> r.kind,
                                              decoded |-> node.Kind # "nil"]]>> \o @],
                        r.kind),
              err |-> ""]

\* Add: the container after the call and the error returned ("" for nil).
Add(reg, m, itemType, node, once) ==
    LET r == ResolveKind(reg, m.Stage, itemType)
    IN  IF ~r.ok
        THEN [mod |-> m, err |-> "unknown module " \o m.Stage \o ":" \o itemType]
        ELSE IF once /\ isLoaded(m, r.kind)
        THEN [mod |-> m, err |-> "module " \o r.kind \o " already loaded"]
        ELSE IF node.Kind # "nil" /\ ~node.Decodes
        THEN [mod |-> m, err |-> "cannot decode module " \o r.kind \o ": yaml error"]
        ELSE [mod |-> flagLoaded(
                        [m EXCEPT !.Modules = Append(@,
                            [Type |-> itemType,
                             Pluggable |-> [factory |-> r.kind,
                                            decoded |-> node.Kind # "nil"]])],
                        r.kind),
              err |-> ""]

\* getType: the value of the first "type" key of a mapping node.
RECURSIVE getTypeFrom(_, _)
getTypeFrom(content, idx) ==
    IF idx + 1 > Len(content) THEN [itemType |-> "", err |-> "type not defined"]
    ELSE IF content[idx] = "type" THEN [itemType |-> content[idx + 1], err |-> ""]
    ELSE getTypeFrom(content, idx + 2)

getType(node) == getTypeFrom(node.Content, 1)

\* One iteration of UnmarshalYAML's loop, for child number idx (from 1).
\* (The messages' backquotes are written as apostrophes.)
UnmarshalChild(reg, m, idx, child) ==
    IF child.Kind # "mapping"
    THEN [mod |-> m,
          err |-> "item #" \o Itoa(idx) \o " of '" \o m.Stage \o "' definition is not a map"]
    ELSE LET t == getType(child)
         IN  IF t.err # ""
             THEN [mod |-> m,
                   err |-> "definition " \o m.Stage \o ", item #" \o Itoa(idx) \o ": " \o t.err]
             ELSE Add(reg, m, t.itemType, child, FALSE)

RECURSIVE UnmarshalFrom(_, _, _, _)
UnmarshalFrom(reg, m, children, idx) ==
    IF idx > Len(children) THEN [mod |-> m, err |-> ""]
    ELSE LET r == UnmarshalChild(reg, m, idx, children[idx])
         IN  IF r.err # "" THEN r ELSE UnmarshalFrom(reg, r.mod, children, idx + 1)

UnmarshalYAML(reg, m, node) ==
    IF node.Kind # "sequence"
    THEN [mod |-> m, err |-> "definition of '" \o m.Stage \o "' is not a sequence"]
    ELSE UnmarshalFrom(reg, m, node.Content, 1)

(***************************************************************************)
(* ContainerSpec: one container, any sequence of Add and UnmarshalYAML     *)
(* calls on it.  lastCall records the last call: its arguments, the        *)
(* container it was made on and the error it returned.                     *)
(***************************************************************************)
NoCall == [op |-> "none"]

ContainerInit ==
    /\ registry \in Registries
    /\ \E i \in DOMAIN StageNames : mod = NewModules(StageNames[i])
    /\ lastCall = NoCall
    /\ pipeline = <<>>
    /\ loadPc = "idle"
    /\ loadPos = 0
    /\ loadErr = ""
    /\ document = <<>>
    /\ context = NewContext(FALSE, <<>>)
    /\ runPc = "idle"
    /\ runStage = 0
    /\ runMod = 0
    /\ runErr = ""
    /\ runLog = NoRunLog
    /\ tar = NoTar
    /\ tarPc = "idle"
    /\ tarErr = ""
    /\ targets = <<>>
    /\ pending = {}
    /\ tarLog = NoTarLog

AddCall(itemType, node, once) ==
    /\ Len(mod.Modules) <= MaxEntries
    /\ LET r == Add(registry, mod, itemType, node, once)
       IN  /\ mod' = r.mod
           /\ lastCall' = [op |-> "Add", itemType |-> itemType, once |-> once,
                           decodes |-> node.Decodes, before |-> mod, err |-> r.err]
    /\ UNCHANGED <<registry, loadVars, runVars, tarVars>>

UnmarshalCall(node) ==
    /\ Len(mod.Modules) + Len(node.Content) <= MaxEntries + 1
    /\ LET r == UnmarshalYAML(registry, mod, node)
       IN  /\ mod' = r.mod
           /\ lastCall' = [op |-> "UnmarshalYAML", before |-> mod, err |-> r.err]
    /\ UNCHANGED <<registry, loadVars, runVars, tarVars>>

AddNodes == {NilNode, MappingNode(<<"type", "x">>, TRUE), MappingNode(<<"type", "x">>, FALSE)}

ConfigNodes == {ScalarNode} \cup {SequenceNode(c) : c \in SeqsUpTo(ChildNodes, MaxEntries)}

ContainerNext ==
    \/ \E t \in ItemTypes, n \in AddNodes, once \in BOOLEAN : AddCall(t, n, once)
    \/ \E n \in ConfigNodes : UnmarshalCall(n)

vars == <<registry, mod, lastCall, pipeline, loadPc, loadPos, loadErr, document,
          context, runPc, runStage, runMod, runErr, runLog,
          tar, tarPc, tarErr, targets, pending, tarLog>>

ContainerSpec == ContainerInit /\ [][ContainerNext]_vars

\* The kinds whose factories made the modules of a container.
FactoryKinds(m) == {m.Modules[i].Pluggable.factory : i \in DOMAIN m.Modules}

AlreadyLoadedErrors == {"module " \o k \o " already loaded" : k \in RegUniverse}

\* C1: an Add with once = true fails with "module <kind> already loaded"
\* whenever the kind it resolves to was loaded into the same container by an
\* earlier successful Add (with either value of once); an Add with
\* once = false never fails with that error, and succeeds whenever its kind
\* resolves and its node decodes, however often the kind was loaded before.
C1_OnceGuard ==
    lastCall.op = "Add" =>
        LET res == ResolveKind(registry, lastCall.before.Stage, lastCall.itemType)
        IN  /\ (lastCall.once /\ res.ok /\ res.kind \in FactoryKinds(lastCall.before))
                  => lastCall.err = "module " \o res.kind \o " already loaded"
            /\ ~lastCall.once => lastCall.err \notin AlreadyLoadedErrors
            /\ (~lastCall.once /\ res.ok /\ lastCall.decodes)
                  => (lastCall.err = "" /\ Len(mod.Modules) = Len(lastCall.before.Modules) + 1)

\* C1's case: a once = true Add of a kind that an earlier once = true Add
\* loaded (the module was made from the factory defaults, no node decoded).
C1_Witness ==
    /\ lastCall.op = "Add"
    /\ lastCall.once
    /\ lastCall.err = "module setup:env already loaded"
    /\ \E i \in DOMAIN mod.Modules :
          /\ mod.Modules[i].Pluggable.factory = "setup:env"
          /\ ~mod.Modules[i].Pluggable.decoded

(***************************************************************************)
(* pipeline.LoadBuildPipeline.  The Pipeline type (New, UnmarshalYAML,     *)
(* LoadDefault) is not among the sources: following the spec's sections    *)
(* 4.2 and 6, the document's key of each stage is decoded into that        *)
(* stage's container with Modules.UnmarshalYAML, the first error ends the  *)
(* load, and LoadDefault(kind) is Add(type, nil, once = true) on the       *)
(* container of the kind's stage.  The loop of UnmarshalYAML is taken one  *)
(* child at a time, each child drawn as it is read; document keeps the     *)
(* children read so far.                                                   *)
(***************************************************************************)
StageSet == Range(StageNames)

\* pipeline.New with the three stages of LoadBuildPipeline.
NewPipeline == [s \in StageSet |-> NewModules(s)]

DefaultKinds == <<"setup:env", "setup:project", "setup:git_tag", "setup:skip_publish">>

\* The position of the first ":" of a kind (0 when there is none).
IndexOfColon(kind, i) ==
    IF Occurrences(kind, ":", i) = {} THEN 0 ELSE MinOf(Occurrences(kind, ":", i))

KindStage(kind) == SubSeq(kind, 1, IndexOfColon(kind, 1) - 1)
KindType(kind) == SubSeq(kind, IndexOfColon(kind, 1) + 1, Len(kind))

\* A variant of LoadDefault that adds without the load-once test.
LoadDefault_Again(reg, p, kind) ==
    LET stage == KindStage(kind)
    IN  IF stage \notin DOMAIN p
        THEN [pipeline |-> p, err |-> "unknown stage " \o stage]
        ELSE LET r == Add(reg, p[stage], KindType(kind), NilNode, FALSE)
             IN  [pipeline |-> [p EXCEPT ![stage] = r.mod], err |-> r.err]

\* Pipeline.LoadDefault: the pipeline after the call and the error returned.
LoadDefault(reg, p, kind) ==
    LET stage == KindStage(kind)
    IN  IF stage \notin DOMAIN p
        THEN [pipeline |-> p, err |-> "unknown stage " \o stage]
        ELSE LET r == Add(reg, p[stage], KindType(kind), NilNode, TRUE)
             IN  [pipeline |-> [p EXCEPT ![stage] = r.mod], err |-> r.err]

Init ==
    /\ registry \in Registries
    /\ mod = NewModules("setup")
    /\ lastCall = NoCall
    /\ pipeline = NewPipeline
    /\ loadPc = "unmarshal"
    /\ loadPos = 1
    /\ loadErr = ""
    /\ document = [s \in StageSet |-> <<>>]
    /\ context = NewContext(FALSE, <<>>)
    /\ runPc = "idle"
    /\ runStage = 0
    /\ runMod = 0
    /\ runErr = ""
    /\ runLog = NoRunLog
    /\ tar = NoTar
    /\ tarPc = "idle"
    /\ tarErr = ""
    /\ targets = <<>>
    /\ pending = {}
    /\ tarLog = NoTarLog

\* The stage's key holds something that is not a sequence.
LoadNotSequence ==
    /\ loadPc = "unmarshal"
    /\ document[StageNames[loadPos]] = <<>>
    /\ LET s == StageNames[loadPos]
           r == UnmarshalYAML(registry, pipeline[s], ScalarNode)
       IN  /\ loadErr' = r.err
           /\ loadPc' = "failed"
    /\ UNCHANGED <<registry, containerVars, pipeline, loadPos, document, runVars, tarVars>>

\* One child of the stage's sequence.
LoadEntry(child) ==
    /\ loadPc = "unmarshal"
    /\ Len(document[StageNames[loadPos]]) < MaxEntries
    /\ LET s == StageNames[loadPos]
           r == UnmarshalChild(registry, pipeline[s], Len(document[s]) + 1, child)
       IN  /\ document' = [document EXCEPT ![s] = Append(@, child)]
           /\ pipeline' = [pipeline EXCEPT ![s] = r.mod]
           /\ loadErr' = r.err
           /\ loadPc' = IF r.err # "" THEN "failed" ELSE "unmarshal"
    /\ UNCHANGED <<registry, containerVars, loadPos, runVars, tarVars>>

\* The end of the stage's sequence (or no key for the stage): on to the next
\* stage, and after the last one to the default modules.
LoadStageEnd ==
    /\ loadPc = "unmarshal"
    /\ IF loadPos < Len(StageNames)
       THEN loadPos' = loadPos + 1 /\ loadPc' = "unmarshal"
       ELSE loadPos' = 1 /\ loadPc' = "defaults"
    /\ UNCHANGED <<registry, containerVars, pipeline, loadErr, document, runVars, tarVars>>

\* _ = pipeline.LoadDefault(kind), for the next kind of the list.
LoadDefaultStep ==
    /\ loadPc = "defaults"
    /\ pipeline' = LoadDefault(registry, pipeline, DefaultKinds[loadPos]).pipeline
    /\ IF loadPos < Len(DefaultKinds)
       THEN loadPos' = loadPos + 1 /\ loadPc' = "defaults"
       ELSE loadPos' = loadPos /\ loadPc' = "done"
    /\ UNCHANGED <<registry, containerVars, loadErr, document, runVars, tarVars>>

Next ==
    \/ LoadNotSequence
    \/ \E child \in ChildNodes : LoadEntry(child)
    \/ LoadStageEnd
    \/ LoadDefaultStep

Spec == Init /\ [][Next]_vars

\* A configuration entry naming a type that is registered neither for the
\* stage nor for "*".
UnregisteredEntry(stage, child) ==
    /\ child.Kind = "mapping"
    /\ getType(child).err = ""
    /\ (stage \o ":" \o getType(child).itemType) \notin registry
    /\ ("*:" \o getType(child).itemType) \notin registry

\* C2: when neither "S:T" nor "*:T" is registered, the Add of T on the
\* container of stage S fails with "unknown module S:T", and loading a
\* document with such an entry fails as a whole with that error: no
\* pipeline is returned.
C2_UnknownModuleFailsLoad ==
    \A s \in StageSet : \A i \in DOMAIN document[s] :
        UnregisteredEntry(s, document[s][i]) =>
            /\ loadPc = "failed"
            /\ loadErr = "unknown module " \o s \o ":" \o getType(document[s][i]).itemType

\* C2's case: the build stage declares an "env" module after a valid entry.
C2_Witness ==
    /\ Len(document["build"]) = 2
    /\ UnregisteredEntry("build", document["build"][2])
    /\ getType(document["build"][2]).itemType = "env"
    /\ loadPc = "failed"

(***************************************************************************)
(* RunSpec: one run of a loaded pipeline, stage by stage (Modules.Run) and *)
(* module by module (Modules.run).  What a module's own Run does is an     *)
(* input: it may append an artifact, clear the publish flag, and return an *)
(* error.  Pipeline.Run is not among the sources; following the spec's     *)
(* section 4.3 it makes one pass over the stages in order and stops at the *)
(* first error.  runLog keeps the history: executed (each module run, with *)
(* the error it returned), entries (each stage entry, with the context     *)
(* before and after the skip decision) and produced (the artifacts the     *)
(* modules said they appended).                                            *)
(***************************************************************************)
\* Most artifacts the modules of one run append.
MaxProduced == 2

StageTypes ==
    [setup |-> <<"env", "skip_publish", "git_tag">>,
     build |-> <<"go", "tar", "upx">>,
     publish |-> <<"artifact", "github", "scp">>]

TypeAt(stage, i) == StageTypes[stage][((i - 1) % 3) + 1]

\* A container of stage holding n modules.
LoadedContainer(stage, n) ==
    [Stage |-> stage,
     Modules |-> [i \in 1..n |->
                    [Type |-> TypeAt(stage, i),
                     Pluggable |-> [factory |-> stage \o ":" \o TypeAt(stage, i),
                                    decoded |-> TRUE]]],
     loaded |-> {stage \o ":" \o TypeAt(stage, i) : i \in 1..n}]

\* The SkipFN LoadBuildPipeline gives each stage: only publish has one.
SkipFn(stage) == IF stage = "publish" THEN "not_publish" ELSE "nil"

\* A variant of Skips with the predicate's result ignored.
Skips_Never(m, ctx) == FALSE

\* Modules.Run's condition: mod.SkipFn != nil && mod.SkipFn(context).
Skips(m, ctx) == SkipFn(m.Stage) # "nil" /\ ~ctx.Publish

\* What one module's Run may do.
Outcomes == [adds : BOOLEAN, unpublish : BOOLEAN, err : {"", "boom"}]

\* module.Pluggable.Run(context): the context after the call.
PluggableRun(ctx, stage, module, outcome) ==
    [ctx EXCEPT
        !.Artifacts = IF outcome.adds
                      THEN ArtifactsAdd(@, Artifact(module.Type, "linux", "amd64", FormatRaw,
                                                    "dist/" \o module.Type, "dist"))
                      ELSE @,
        !.Publish = IF outcome.unpublish THEN FALSE ELSE @]

\* A variant of runStep that logs a module's error and carries on.
runStep_Continue(m, idx, err) ==
    IF idx < Len(m.Modules) THEN [returns |-> FALSE, err |-> "", next |-> idx + 1]
    ELSE [returns |-> TRUE, err |-> "", next |-> idx]

\* Modules.run's loop after the module at idx returned err: whether run
\* returns, with which error, and the module to run next.
runStep(m, idx, err) ==
    IF err # ""
    THEN [returns |-> TRUE, err |-> m.Stage \o ":" \o m.Modules[idx].Type \o ": " \o err,
          next |-> idx]
    ELSE IF idx < Len(m.Modules) THEN [returns |-> FALSE, err |-> "", next |-> idx + 1]
    ELSE [returns |-> TRUE, err |-> "", next |-> idx]

\* A variant of PipelineStep that goes on to the next stage after an error.
PipelineStep_GoOn(stageIdx, err) ==
    IF stageIdx < Len(StageNames) THEN [pc |-> "pending", stage |-> stageIdx + 1]
    ELSE [pc |-> IF err # "" THEN "failed" ELSE "done", stage |-> stageIdx]

\* Pipeline.Run after a stage returned err: the next position.
PipelineStep(stageIdx, err) ==
    IF err # "" THEN [pc |-> "failed", stage |-> stageIdx]
    ELSE IF stageIdx < Len(StageNames) THEN [pc |-> "pending", stage |-> stageIdx + 1]
    ELSE [pc |-> "done", stage |-> stageIdx]

RunInit ==
    /\ registry = RegUniverse
    /\ mod = NewModules("setup")
    /\ lastCall = NoCall
    /\ \E n \in [StageSet -> 0..MaxEntries] :
          pipeline = [s \in StageSet |-> LoadedContainer(s, n[s])]
    /\ loadPc = "done"
    /\ loadPos = Len(DefaultKinds)
    /\ loadErr = ""
    /\ document = <<>>
    /\ \E publish \in BOOLEAN : context = NewContext(publish, <<>>)
    /\ runPc = "pending"
    /\ runStage = 1
    /\ runMod = 0
    /\ runErr = ""
    /\ runLog = NoRunLog
    /\ tar = NoTar
    /\ tarPc = "idle"
    /\ tarErr = ""
    /\ targets = <<>>
    /\ pending = {}
    /\ tarLog = NoTarLog

\* Modules.Run up to its first module: the skip decision.  A skipped stage,
\* and one with no modules, returns nil at once.
StageEnter ==
    /\ runPc = "pending"
    /\ LET m == pipeline[StageNames[runStage]]
           skip == Skips(m, context)
           after == PipelineStep(runStage, "")
       IN  /\ context' = context
           /\ runLog' = [runLog EXCEPT !.entries = Append(@,
                            [stage |-> m.Stage, skipped |-> skip,
                             before |-> context, after |-> context'])]
           /\ IF skip \/ m.Modules = <<>>
              THEN runPc' = after.pc /\ runStage' = after.stage /\ runMod' = 0
              ELSE runPc' = "running" /\ runStage' = runStage /\ runMod' = 1
    /\ UNCHANGED <<registry, containerVars, loadVars, runErr, tarVars>>

\* One iteration of Modules.run's loop; when the loop ends, Modules.Run
\* returns and the pipeline goes on or stops.
ModuleRun(outcome) ==
    /\ runPc = "running"
    /\ outcome.adds => Len(runLog.produced) < MaxProduced
    /\ LET m == pipeline[StageNames[runStage]]
           module == m.Modules[runMod]
           ctx == PluggableRun(context, m.Stage, module, outcome)
           step == runStep(m, runMod, outcome.err)
           after == PipelineStep(runStage, step.err)
       IN  /\ context' = ctx
           /\ runLog' = [runLog EXCEPT
                  !.executed = Append(@, [stage |-> m.Stage, idx |-> runMod,
                                          type |-> module.Type, err |-> outcome.err]),
                  !.produced = IF outcome.adds
                               THEN Append(@, ctx.Artifacts[Len(ctx.Artifacts)])
                               ELSE @]
           /\ IF step.returns
              THEN runPc' = after.pc /\ runStage' = after.stage /\ runMod' = step.next
                   /\ runErr' = step.err
              ELSE runPc' = "running" /\ runStage' = runStage /\ runMod' = step.next
                   /\ runErr' = runErr
    /\ UNCHANGED <<registry, containerVars, loadVars, tarVars>>

RunNext ==
    \/ StageEnter
    \/ \E outcome \in Outcomes : ModuleRun(outcome)

RunSpec == RunInit /\ [][RunNext]_vars

\* The modules of stage that were executed, in the order they ran.
ExecutedOf(stage) == SelectSeq(runLog.executed, LAMBDA e : e.stage = stage)

\* C3: a failing module aborts its stage at once.  The modules of a stage
\* run in container order; once a module returned an error no further
\* module runs, the run has failed with the cause wrapped as
\* "<stage>:<type>: <cause>" of that module, and the store still holds
\* every artifact the modules appended before (no rollback).
C3_FailureAbortsStage ==
    /\ \A s \in StageSet : \A k \in DOMAIN ExecutedOf(s) :
          /\ ExecutedOf(s)[k].idx = k
          /\ ExecutedOf(s)[k].type = pipeline[s].Modules[k].Type
    /\ \A k \in DOMAIN runLog.executed :
          runLog.executed[k].err # "" =>
              /\ k = Len(runLog.executed)
              /\ runPc = "failed"
              /\ runErr = runLog.executed[k].stage \o ":" \o
                          pipeline[runLog.executed[k].stage].Modules[runLog.executed[k].idx].Type
                          \o ": " \o runLog.executed[k].err
    /\ context.Artifacts = runLog.produced

\* C3's case: a setup module appended an artifact, then the first of two
\* build modules failed.
C3_Witness ==
    /\ runPc = "failed"
    /\ runErr = "build:go: boom"
    /\ Len(pipeline["build"].Modules) = 2
    /\ Len(ExecutedOf("build")) = 1
    /\ \E i \in DOMAIN context.Artifacts : context.Artifacts[i].Name = "env"

\* C4: when a stage's skip predicate returns true on entry, none of the
\* stage's modules is executed, the Build Context is left as it was, and
\* the stage returns success so that the pipeline advances; a stage with no
\* skip predicate (setup, build) is never skipped.
C4_SkipRunsNothing ==
    \A k \in DOMAIN runLog.entries :
        LET e == runLog.entries[k]
        IN  /\ (e.stage = "publish" /\ ~e.before.Publish) =>
                  /\ e.skipped
                  /\ e.after = e.before
                  /\ ExecutedOf(e.stage) = <<>>
                  /\ context = e.before
                  /\ runPc = "done"
                  /\ runErr = ""
            /\ (e.stage # "publish" \/ e.before.Publish) => ~e.skipped

\* C4's case: publish, holding modules, was entered with the publish flag
\* off after a build module had appended an artifact.
C4_Witness ==
    /\ runPc = "done"
    /\ Len(runLog.entries) = 3
    /\ runLog.entries[3].skipped
    /\ pipeline["publish"].Modules # <<>>
    /\ context.Artifacts # <<>>

(***************************************************************************)
(* Strings and paths, as the archive module uses them: strings.TrimPrefix, *)
(* strings.Join, sort.Strings, and path.Clean, path.Join, path.Dir of the  *)
(* Go standard library, computed on the characters.                        *)
(***************************************************************************)
HasPrefix(str, prefix) ==
    Len(prefix) <= Len(str) /\ SubSeq(str, 1, Len(prefix)) = prefix

TrimPrefix(str, prefix) ==
    IF HasPrefix(str, prefix) THEN SubSeq(str, Len(prefix) + 1, Len(str)) ELSE str

RECURSIVE StringsJoin(_, _)
StringsJoin(elems, sep) ==
    IF elems = <<>> THEN ""
    ELSE IF Len(elems) = 1 THEN elems[1]
    ELSE elems[1] \o sep \o StringsJoin(Tail(elems), sep)

\* The byte order of the characters that occur in names and paths.
Alphabet == "*-./0123456789:ABCDEFGHIJKLMNOPQRSTUVWXYZ_abcdefghijklmnopqrstuvwxyz"

CharRank(c) ==
    IF Occurrences(Alphabet, c, 1) = {} THEN 0 ELSE MinOf(Occurrences(Alphabet, c, 1))

\* a < b for Go strings: the first byte at which they differ decides, and a
\* proper prefix is the lesser.
StringLess(a, b) ==
    LET n == IF Len(a) < Len(b) THEN Len(a) ELSE Len(b)
        differ == {i \in 1..n : SubSeq(a, i, i) # SubSeq(b, i, i)}
    IN  IF differ = {} THEN Len(a) < Len(b)
        ELSE CharRank(SubSeq(a, MinOf(differ), MinOf(differ)))
                 < CharRank(SubSeq(b, MinOf(differ), MinOf(differ)))

\* sort.Strings of a set of distinct strings.
RECURSIVE SortStrings(_)
SortStrings(S) ==
    IF S = {} THEN <<>>
    ELSE LET least == CHOOSE x \in S : \A y \in S \ {x} : StringLess(x, y)
         IN  <<least>> \o SortStrings(S \ {least})

\* The elements of a path between its slashes (empty ones included).
RECURSIVE SplitSlash(_, _)
SplitSlash(str, i) ==
    IF Occurrences(str, "/", i) = {} THEN <<SubSeq(str, i, Len(str))>>
    ELSE <<SubSeq(str, i, MinOf(Occurrences(str, "/", i)) - 1)>>
         \o SplitSlash(str, MinOf(Occurrences(str, "/", i)) + 1)

\* path.Clean's pass over the elements: "." and empty elements are dropped,
\* ".." removes the element before it, is dropped at the root and is kept
\* at the start of a relative path.
RECURSIVE CleanElems(_, _, _)
CleanElems(elems, out, rooted) ==
    IF elems = <<>> THEN out
    ELSE LET e == Head(elems)
             rest == Tail(elems)
         IN  IF e = "" \/ e = "." THEN CleanElems(rest, out, rooted)
             ELSE IF e = ".."
             THEN IF out # <<>> /\ out[Len(out)] # ".."
                  THEN CleanElems(rest, SubSeq(out, 1, Len(out) - 1), rooted)
                  ELSE IF rooted THEN CleanElems(rest, out, rooted)
                  ELSE CleanElems(rest, Append(out, e), rooted)
             ELSE CleanElems(rest, Append(out, e), rooted)

\* path.Clean
PathClean(p) ==
    IF p = "" THEN "."
    ELSE LET rooted == Head(p) = "/"
             body == StringsJoin(CleanElems(SplitSlash(p, 1), <<>>, rooted), "/")
         IN  IF rooted THEN "/" \o body
             ELSE IF body = "" THEN "." ELSE body

\* path.Join of two elements.
PathJoin(a, b) ==
    LET elems == SelectSeq(<<a, b>>, LAMBDA e : e # "")
    IN  IF elems = <<>> THEN "" ELSE PathClean(StringsJoin(elems, "/"))

\* The position of the last slash of p (0 when it has none).
LastSlash(p) ==
    IF Occurrences(p, "/", 1) = {} THEN 0 ELSE MaxOf(Occurrences(p, "/", 1))

\* path.Dir
PathDir(p) == PathClean(SubSeq(p, 1, LastSlash(p)))

(***************************************************************************)
(* archive.Tar: configuration, inputs, and the grouping and validation of  *)
(* Tar.newRuntime.                                                         *)
(***************************************************************************)
\* Most artifacts in the store before the archive module runs.
MaxStore == 4

\* The Compression type is not among the sources: by the spec's section 4.5
\* it wraps the stream and gives the extension of the output file.
CompressionExtension(c) == IF c = "gzip" THEN ".gz" ELSE ""

\* NewTar: the factory defaults.
NewTar ==
    [Builds |-> <<"default">>,
     CommonDir |-> "{{.ProjectName}}-{{.Version}}-{{.OS}}-{{.Arch}}",
     Compression |-> "none",
     Files |-> <<"README*">>,
     Name |-> "archive",
     Output |-> "{{.ProjectName}}-{{.Version}}-{{.OS}}-{{.Arch}}.tar{{.Ext}}",
     Skip |-> <<>>]

\* The configurations considered: the defaults with two builds; one build,
\* a skipped platform, gzip, no common directory and an output path that
\* needs cleaning; an output path that is the same for every platform; a
\* build named twice and no files; an absolute common directory.
TarConfigs ==
    {[NewTar EXCEPT !.Builds = <<"server", "cli">>],
     [NewTar EXCEPT !.Builds = <<"server">>, !.CommonDir = "", !.Compression = "gzip",
                    !.Name = "bundle", !.Skip = <<"darwin-amd64">>,
                    !.Output = "out//./{{.OS}}/../{{.OS}}_{{.Arch}}.tar{{.Ext}}"],
     [NewTar EXCEPT !.Builds = <<"cli", "server">>, !.CommonDir = "pkg",
                    !.Output = "all.tar"],
     [NewTar EXCEPT !.Builds = <<"server", "server">>, !.Files = <<>>],
     [NewTar EXCEPT !.Builds = <<"cli">>, !.CommonDir = "/opt/{{.ProjectName}}",
                    !.Files = <<>>, !.Name = "rooted"]}

Platforms == {<<"linux", "amd64">>, <<"darwin", "amd64">>, <<"linux", "arm64">>}

\* A build's output, as a build module records it.
BuildArtifact(name, os, arch) ==
    Artifact(name, os, arch, FormatRaw, "dist/" \o os \o "-" \o arch \o "/" \o name, "dist")

BuildArtifacts == {BuildArtifact(n, pl[1], pl[2]) : n \in {"server", "cli"}, pl \in Platforms}

\* newRuntime's grouping loops: for each build of Builds, each artifact of
\* that name whose os-arch is not skipped is appended to its os-arch group.
RECURSIVE GroupArts(_, _, _)
GroupArts(arts, skipIndex, builds) ==
    IF arts = <<>> THEN builds
    ELSE LET art == Head(arts)
             osarch == art.OS \o "-" \o art.Arch
         IN  IF osarch \in skipIndex THEN GroupArts(Tail(arts), skipIndex, builds)
             ELSE IF osarch \in DOMAIN builds
             THEN GroupArts(Tail(arts), skipIndex,
                            [builds EXCEPT ![osarch] = Append(@, art)])
             ELSE GroupArts(Tail(arts), skipIndex,
                            [k \in DOMAIN builds \cup {osarch} |->
                                IF k = osarch THEN <<art>> ELSE builds[k]])

RECURSIVE GroupBuilds(_, _, _, _)
GroupBuilds(names, store, skipIndex, builds) ==
    IF names = <<>> THEN builds
    ELSE GroupBuilds(Tail(names), store, skipIndex,
                     GroupArts(ByName(store, Head(names)), skipIndex, builds))

\* The empty map.
EmptyMap == [k \in {} |-> <<>>]

\* errNumTargets: the message, and the two groups it was given.
errNumTargets(bad, good, builds) ==
    IF DOMAIN builds = {} THEN [msg |-> "no builds found", bad |-> bad, good |-> good,
                                reported |-> <<>>]
    ELSE IF good \notin DOMAIN builds \/ Len(builds[good]) = 0
    THEN [msg |-> "invalid reference to good artifacts: " \o good, bad |-> bad,
          good |-> good, reported |-> <<>>]
    ELSE LET goodKeys == {OsArch(builds[good][i]) : i \in DOMAIN builds[good]}
             badKeys == IF bad \in DOMAIN builds
                        THEN {OsArch(builds[bad][i]) : i \in DOMAIN builds[bad]}
                        ELSE {}
             \* targets[name] is true for the good group's entries that the
             \* bad group did not overwrite with false
             goodTargets == SortStrings(goodKeys \ badKeys)
             badTargets == SortStrings(badKeys)
             plural == IF Len(goodTargets) = 1 THEN "" ELSE "s"
         IN  IF Len(badTargets) = 0
             THEN [msg |-> "no targets found for build" \o plural \o " "
                           \o StringsJoin(goodTargets, ", "),
                   bad |-> bad, good |-> good, reported |-> goodTargets]
             ELSE [msg |-> "build " \o bad \o " is missing os-arch target" \o plural \o " "
                           \o StringsJoin(goodTargets, ", "),
                   bad |-> bad, good |-> good, reported |-> goodTargets]

NoDiag == [msg |-> "", bad |-> "", good |-> "", reported |-> <<>>]

\* A variant of CompareTargets that reports only a group larger than the
\* first one.
CompareTargets_OnlyLarger(numTargets, lastosarch, osarch, builds) ==
    IF numTargets < Len(builds[osarch])
    THEN errNumTargets(lastosarch, osarch, builds)
    ELSE NoDiag

\* A variant of CompareTargets that reports only a group smaller than the
\* first one.
CompareTargets_OnlySmaller(numTargets, lastosarch, osarch, builds) ==
    IF numTargets > Len(builds[osarch])
    THEN errNumTargets(osarch, lastosarch, builds)
    ELSE NoDiag

\* The two comparisons of newRuntime's validation loop for one group.
CompareTargets(numTargets, lastosarch, osarch, builds) ==
    IF numTargets < Len(builds[osarch])
    THEN errNumTargets(lastosarch, osarch, builds)
    ELSE IF numTargets > Len(builds[osarch])
    THEN errNumTargets(osarch, lastosarch, builds)
    ELSE NoDiag

\* newRuntime's validation loop, ranging over the map in the given order.
RECURSIVE ValidateFrom(_, _, _, _)
ValidateFrom(order, numTargets, lastosarch, builds) ==
    IF order = <<>> THEN NoDiag
    ELSE IF numTargets = 0
    THEN ValidateFrom(Tail(order), Len(builds[Head(order)]), Head(order), builds)
    ELSE LET d == CompareTargets(numTargets, lastosarch, Head(order), builds)
         IN  IF d.msg # "" THEN d
             ELSE ValidateFrom(Tail(order), numTargets, lastosarch, builds)

\* The orders in which a range over a map with these keys may deliver them.
Orders(keys) ==
    {o \in [1..Cardinality(keys) -> keys] : \A i, j \in DOMAIN o : i # j => o[i] # o[j]}

\* Tar.newRuntime: the targets and the diagnostic (msg "" for a nil error).
newRuntime(cfg, ctx, order) ==
    LET builds == GroupBuilds(cfg.Builds, ctx.Artifacts, Range(cfg.Skip), EmptyMap)
    IN  [targets |-> builds, diag |-> ValidateFrom(order, 0, "", builds)]

\* The keys of the groups newRuntime will build (what its validation loop
\* ranges over).
GroupKeys(cfg, ctx) ==
    DOMAIN GroupBuilds(cfg.Builds, ctx.Artifacts, Range(cfg.Skip), EmptyMap)

(***************************************************************************)
(* Rendering.  modules.TemplateData is not among the sources: by the       *)
(* spec's sections 1 and 6 it renders a template over the fields           *)
(* ProjectName, Version, OS, Arch and Ext, and fails on any other field.   *)
(***************************************************************************)
\* The position of the first "}}" at or after i (0 when there is none).
ActionEnd(tpl, i) ==
    IF Occurrences(tpl, "}}", i) = {} THEN 0 ELSE MinOf(Occurrences(tpl, "}}", i))

\* The rendering of tpl from position i on: the text up to the next action
\* is copied, the action is replaced by the field's value.
RECURSIVE RenderFrom(_, _, _)
RenderFrom(tpl, i, td) ==
    IF Occurrences(tpl, "{{.", i) = {}
    THEN [out |-> SubSeq(tpl, i, Len(tpl)), err |-> ""]
    ELSE LET open == MinOf(Occurrences(tpl, "{{.", i))
             j == ActionEnd(tpl, open + 3)
             field == SubSeq(tpl, open + 3, j - 1)
         IN  IF j = 0 THEN [out |-> "", err |-> "template: unclosed action"]
             ELSE IF field \notin DOMAIN td
             THEN [out |-> "", err |-> "template: can't evaluate field " \o field]
             ELSE LET rest == RenderFrom(tpl, j + 2, td)
                  IN  [out |-> SubSeq(tpl, i, open - 1) \o td[field] \o rest.out,
                       err |-> rest.err]

\* TemplateData.Parse
TemplateParse(td, tpl) == RenderFrom(tpl, 1, td)

(***************************************************************************)
(* Writing one target.  The archive being written is a record: entries     *)
(* (the headers written, in order), nb (the bytes the current entry still  *)
(* expects, as archive/tar's Writer counts them), dirs (DirsWritten),      *)
(* writes (what each file copy reported), nfiles (file writes begun), err  *)
(* and hung (a loop that never ends).  What the file system does is an     *)
(* input: io says whether the output file can be created, whether the      *)
(* target directory can be examined, what the glob matches, and which one  *)
(* file write (if any) goes wrong, and how.                                *)
(***************************************************************************)
\* The size the metadata of every source file reports.
ReportedSize == 2

FileFaults == {"stat", "open", "short", "long"}

\* The files a glob pattern of Files may match.
GlobNames == {"README.md"}

\* What the file system may do during one target: at most one thing wrong.
TargetIO ==
    LET ok == [create |-> TRUE, dirStat |-> TRUE, faultAt |-> 0, fault |-> "none"]
    IN  {[io EXCEPT !.matches = m] :
            io \in [create : {TRUE}, dirStat : {TRUE}, faultAt : 1..(MaxStore + 1),
                    fault : FileFaults, matches : {<<>>}]
                   \cup {[ok EXCEPT !.create = FALSE] @@ [matches |-> <<>>],
                         [ok EXCEPT !.dirStat = FALSE] @@ [matches |-> <<>>],
                         ok @@ [matches |-> <<>>]},
            m \in {<<>>} \cup {<<n>> : n \in GlobNames}}

NewArchive ==
    [entries |-> <<>>, nb |-> 0, dirs |-> {}, writes |-> <<>>, nfiles |-> 0,
     err |-> "", hung |-> FALSE]

\* tar.Writer.WriteHeader: it flushes the entry before, which fails when
\* that entry is short of bytes.
TwWriteHeader(st, name, size) ==
    IF st.nb > 0
    THEN [st EXCEPT !.err = "archive/tar: missed writing " \o Itoa(st.nb) \o " bytes"]
    ELSE [st EXCEPT !.entries = Append(@, name), !.nb = size]

\* writeFile's handling of io.CopyBuffer's result (n, err): the error it
\* returns ("" for nil).
CopyResult(source, destpath, n, size, tooLong) ==
    IF tooLong
    THEN "copying " \o source \o " to archive " \o destpath \o " (" \o Itoa(n)
         \o " bytes written, " \o Itoa(size) \o " bytes reported): archive/tar: write too long"
    ELSE ""

\* singleTarget.writeFile
writeFile(st, destpath, source, io) ==
    LET k == st.nfiles + 1
        fault == IF io.faultAt = k THEN io.fault ELSE "none"
        begun == [st EXCEPT !.nfiles = k]
        size == ReportedSize
        delivered == IF fault = "short" THEN size - 1
                     ELSE IF fault = "long" THEN size + 1 ELSE size
    IN  IF fault = "stat"
        THEN [begun EXCEPT !.err = "can't stat file " \o source \o ": no such file or directory"]
        ELSE LET hdr == TwWriteHeader(begun, destpath, size)
             IN  IF hdr.err # "" THEN hdr
                 ELSE IF fault = "open"
                 THEN [hdr EXCEPT !.err = "open " \o source \o ": permission denied"]
                 ELSE LET n == IF delivered < hdr.nb THEN delivered ELSE hdr.nb
                      IN  [hdr EXCEPT
                             !.nb = @ - n,
                             !.writes = Append(@, [source |-> source, dest |-> destpath,
                                                   reported |-> size,
                                                   delivered |-> delivered, written |-> n]),
                             !.err = CopyResult(source, destpath, n, size, delivered > hdr.nb)]

\* A variant of writeDir that does not look into DirsWritten.
writeDir_Always(st, dirname, io) ==
    IF ~io.dirStat THEN [st EXCEPT !.err = "stat dist: no such file or directory"]
    ELSE LET hdr == TwWriteHeader(st, dirname \o "/", 0)
         IN  IF hdr.err # "" THEN hdr ELSE [hdr EXCEPT !.dirs = @ \cup {dirname}]

\* singleTarget.writeDir
writeDir(st, dirname, io) ==
    IF dirname \in st.dirs THEN st
    ELSE IF ~io.dirStat THEN [st EXCEPT !.err = "stat dist: no such file or directory"]
    ELSE LET hdr == TwWriteHeader(st, dirname \o "/", 0)
         IN  IF hdr.err # "" THEN hdr ELSE [hdr EXCEPT !.dirs = @ \cup {dirname}]

\* writeDirs' first loop: the ancestors of fullpath up to ".", nearest
\* first.  path.Dir of "/" is "/": from an absolute path "." is never
\* reached and the loop does not end.
RECURSIVE Ancestors(_, _)
Ancestors(fullpath, dirs) ==
    LET up == PathDir(fullpath)
    IN  IF up = "." THEN [dirs |-> dirs, hung |-> FALSE]
        ELSE IF up = fullpath THEN [dirs |-> dirs, hung |-> TRUE]
        ELSE Ancestors(up, Append(dirs, up))

RECURSIVE writeDirsFrom(_, _, _, _)
writeDirsFrom(st, dirs, i, io) ==
    IF i = 0 THEN st
    ELSE LET made == writeDir(st, dirs[i], io)
         IN  IF made.err # ""
             THEN [made EXCEPT !.err = "cannot create directory " \o dirs[i] \o ": " \o @]
             ELSE writeDirsFrom(made, dirs, i - 1, io)

\* The name of a file inside the archive, and the ancestors writeDirs
\* collects for it: path.Join(CommonDir, rel), then path.Dir and the loop.
ArchivePath(commonDir, rel) ==
    LET name == PathJoin(commonDir, rel)
        dir == PathDir(name)
    IN  [name |-> name, dir |-> dir,
         anc |-> IF dir = "." THEN [dirs |-> <<>>, hung |-> FALSE]
                 ELSE Ancestors(dir, <<dir>>)]

\* The rendering part of tarRuntime.singleTarget: CommonDir and Output for
\* one platform.
RenderTarget(cfg, ctx, os, arch) ==
    LET td == [Arch |-> arch, ProjectName |-> ctx.ProjectName, OS |-> os,
               Version |-> ctx.Version, Ext |-> CompressionExtension(cfg.Compression)]
        commonDir == TemplateParse(td, cfg.CommonDir)
        outSource == PathJoin(ctx.TargetDir, cfg.Output)
        output == TemplateParse(td, outSource)
    IN  IF commonDir.err # ""
        THEN [err |-> "rendering \"" \o cfg.CommonDir \o "\": " \o commonDir.err,
              CommonDir |-> "", Output |-> ""]
        ELSE IF output.err # ""
        THEN [err |-> "rendering \"" \o outSource \o "\": " \o output.err,
              CommonDir |-> commonDir.out, Output |-> ""]
        ELSE [err |-> "", CommonDir |-> commonDir.out, Output |-> PathClean(output.out)]

\* RenderTarget and ArchivePath for the configurations, platforms and files
\* of this model, computed once.
RenderedTargets ==
    [cfg \in TarConfigs |->
        [pl \in Platforms |-> RenderTarget(cfg, NewContext(TRUE, <<>>), pl[1], pl[2])]]

RelNames ==
    {TrimPrefix(a.Filename, a.Location \o "/") : a \in BuildArtifacts} \cup GlobNames

ArchivePaths ==
    [cd \in {RenderedTargets[cfg][pl].CommonDir : cfg \in TarConfigs, pl \in Platforms} |->
        [rel \in RelNames |-> ArchivePath(cd, rel)]]

ArchivePathOf(commonDir, rel) == ArchivePaths[commonDir][rel]

\* singleTarget.writeDirs, with the ancestors already collected.
writeDirsOf(st, ap, io) ==
    IF ap.dir = "." THEN st
    ELSE IF ap.anc.hung THEN [st EXCEPT !.hung = TRUE]
    ELSE writeDirsFrom(st, ap.anc.dirs, Len(ap.anc.dirs), io)

\* An error was returned, or the loop of writeDirs does not end: nothing
\* further is written to this archive.
Stopped(st) == st.err # "" \/ st.hung

\* "if err := t.writeDirs(...); err != nil { return err }" and then
\* "return t.writeFile(...)", as writeArtifact and writeFileGlob have it.
writeFileAfterDirs(dirs, ap, source, io) ==
    IF Stopped(dirs) THEN dirs ELSE writeFile(dirs, ap.name, source, io)

writeEntry(st, ap, source, io) ==
    writeFileAfterDirs(writeDirsOf(st, ap, io), ap, source, io)

\* singleTarget.writeArtifact
writeArtifact(st, commonDir, artifact, io) ==
    writeEntry(st,
               ArchivePathOf(commonDir,
                             TrimPrefix(artifact.Filename, artifact.Location \o "/")),
               artifact.Filename, io)

\* singleTarget.writeFileGlob, for the matches filepath.Glob returned: the
\* loop ends at the first error.
RECURSIVE writeFileGlob(_, _, _, _)
writeFileGlob(st, commonDir, matches, io) ==
    IF Stopped(st) \/ matches = <<>> THEN st
    ELSE writeFileGlob(writeEntry(st, ArchivePathOf(commonDir, Head(matches)),
                                  Head(matches), io),
                       commonDir, Tail(matches), io)

\* The two loops of singleTarget.run: each ends at the first error.
RECURSIVE writeArtifacts(_, _, _, _)
writeArtifacts(st, commonDir, arts, io) ==
    IF Stopped(st) \/ arts = <<>> THEN st
    ELSE writeArtifacts(writeArtifact(st, commonDir, Head(arts), io),
                        commonDir, Tail(arts), io)

RECURSIVE writeFiles(_, _, _, _)
writeFiles(st, commonDir, files, io) ==
    IF Stopped(st) \/ files = <<>> THEN st
    ELSE writeFiles(writeFileGlob(st, commonDir, io.matches, io),
                    commonDir, Tail(files), io)

\* tarRuntime.singleTarget: the target of one os-arch key.
singleTarget(cfg, ctx, groups, osarch) ==
    IF osarch \notin DOMAIN groups \/ Len(groups[osarch]) = 0
    THEN [err |-> "empty target for os-arch " \o osarch]
    ELSE LET artifacts == groups[osarch]
             r == RenderedTargets[cfg][<<artifacts[1].OS, artifacts[1].Arch>>]
         IN  IF r.err # "" THEN [err |-> r.err]
             ELSE [err |-> "", Arch |-> artifacts[1].Arch, CommonDir |-> r.CommonDir,
                   Compression |-> cfg.Compression, Files |-> cfg.Files,
                   Name |-> cfg.Name, OS |-> artifacts[1].OS,
                   Output |-> r.Output, Targets |-> artifacts]

\* What singleTarget.run acquires, in order, and the calls it defers, in
\* the order of its defer statements.
Acquired == <<"create file", "open compression", "open tar">>

Deferred == <<"close file", "close compression", "close tar">>

\* A variant of RunDeferred that runs the calls in the order they were
\* deferred.
RunDeferred_FirstFirst(calls) == calls

\* Go runs deferred calls when the function returns, the last deferred
\* first.
RunDeferred(calls) == [i \in DOMAIN calls |-> calls[Len(calls) + 1 - i]]

\* The return of singleTarget.run once both loops are over: the deferred
\* Close calls run (their errors are dropped), and the archive is added to
\* the artifacts only when no write failed.
targetReturn(target, store, done) ==
    LET opened == Acquired
        closed == RunDeferred(Deferred)
    IN  IF done.hung
        THEN [archive |-> done, store |-> store, hung |-> TRUE, events |-> opened,
              err |-> ""]
        ELSE IF done.err # ""
        THEN [archive |-> done, store |-> store, hung |-> FALSE,
              events |-> opened \o closed,
              err |-> "writing " \o target.Output \o ": " \o done.err]
        ELSE [archive |-> done,
              store |-> ArtifactsAdd(store,
                            Artifact(target.Name, target.OS, target.Arch, FormatTar,
                                     target.Output, target.Output)),
              hung |-> FALSE, events |-> opened \o closed, err |-> ""]

\* singleTarget.run: the archive written, the store after it, the error
\* returned, and the resources opened and closed, in order.
targetRun(target, store, io) ==
    IF ~io.create
    THEN [archive |-> NewArchive, store |-> store, hung |-> FALSE, events |-> <<>>,
          err |-> "cannot create archive file " \o target.Output \o ": permission denied"]
    ELSE targetReturn(target, store,
             writeFiles(writeArtifacts(NewArchive, target.CommonDir, target.Targets, io),
                        target.CommonDir, target.Files, io))

\* The stores the archive module runs on: up to MaxStore build outputs, no
\* output recorded twice, in any order.
TarStores ==
    {store \in SeqsUpTo(BuildArtifacts, MaxStore) :
        \A i, j \in DOMAIN store : store[i] = store[j] => i = j}

(***************************************************************************)
(* TarSpec: one run of the archive module (Tar.Run) on a store of build    *)
(* artifacts.  TarStart is newRuntime and the entry of tarRuntime.run;     *)
(* TarTarget is one iteration of tarRuntime.run's loop, for any key not    *)
(* yet ranged over (a range over a map delivers the keys in any order).    *)
(* tarLog keeps the store before the run, the diagnostic of newRuntime and *)
(* what the last target wrote.                                             *)
(***************************************************************************)
TarInit ==
    /\ registry = RegUniverse
    /\ mod = NewModules("build")
    /\ lastCall = NoCall
    /\ pipeline = <<>>
    /\ loadPc = "idle"
    /\ loadPos = 0
    /\ loadErr = ""
    /\ document = <<>>
    /\ \E store \in TarStores : context = NewContext(TRUE, store)
    /\ runPc = "idle"
    /\ runStage = 0
    /\ runMod = 0
    /\ runErr = ""
    /\ runLog = NoRunLog
    /\ tar \in TarConfigs
    /\ tarPc = "idle"
    /\ tarErr = ""
    /\ targets = EmptyMap
    /\ pending = {}
    /\ tarLog = NoTarLog

\* Tar.Run up to the first target: newRuntime, then run's loop is entered.
\* With no targets the loop ends at once and Tar.Run returns nil.
TarStart(order) ==
    /\ tarPc = "idle"
    /\ LET rt == newRuntime(tar, context, order)
       IN  /\ tarLog' = [tarLog EXCEPT !.before = context.Artifacts, !.diag = rt.diag]
           /\ tarErr' = rt.diag.msg
           /\ IF rt.diag.msg # ""
              THEN tarPc' = "failed" /\ targets' = targets /\ pending' = {}
              ELSE /\ targets' = rt.targets
                   /\ pending' = DOMAIN rt.targets
                   /\ tarPc' = IF DOMAIN rt.targets = {} THEN "done" ELSE "running"
    /\ UNCHANGED <<registry, containerVars, loadVars, runPc, runStage, runMod, runErr,
                   runLog, context, tar>>

\* The end of one iteration of run's loop, r being what target.run returned.
TargetRan(osarch, target, r) ==
    /\ context' = [context EXCEPT !.Artifacts = r.store]
    /\ tarErr' = r.err
    /\ tarLog' = [tarLog EXCEPT !.target =
           [osarch |-> osarch, output |-> target.Output,
            entries |-> r.archive.entries, writes |-> r.archive.writes,
            events |-> r.events, err |-> r.err,
            storeBefore |-> context.Artifacts]]
    /\ pending' = pending \ {osarch}
    /\ tarPc' = IF r.hung THEN "hung"
                ELSE IF r.err # "" THEN "failed"
                ELSE IF pending' = {} THEN "done" ELSE "running"

\* One iteration of run's loop for the target singleTarget returned.
TargetStep(osarch, target, io) ==
    IF target.err # ""
    THEN /\ tarErr' = target.err
         /\ tarPc' = "failed"
         /\ tarLog' = [tarLog EXCEPT !.target = [osarch |-> osarch, err |-> target.err]]
         /\ UNCHANGED <<context, pending>>
    ELSE TargetRan(osarch, target, targetRun(target, context.Artifacts, io))

\* One iteration of run's loop: singleTarget, then target.run.
TarTarget(osarch, io) ==
    /\ tarPc = "running"
    /\ osarch \in pending
    /\ TargetStep(osarch, singleTarget(tar, context, targets, osarch), io)
    /\ UNCHANGED <<registry, containerVars, loadVars, runPc, runStage, runMod, runErr,
                   runLog, tar, targets>>

TarNext ==
    \/ \E order \in Orders(GroupKeys(tar, context)) : TarStart(order)
    \/ \E osarch \in pending, io \in TargetIO : TarTarget(osarch, io)

TarSpec == TarInit /\ [][TarNext]_vars

(***************************************************************************)
(* The groups of a run, counted from the configuration and the store as    *)
(* they were when Tar.Run was called: the artifacts of the store, once per *)
(* entry of Builds naming them, by os-arch key, the skipped keys left out. *)
(***************************************************************************)
KeyOf(art) == art.OS \o "-" \o art.Arch

Grouped(cfg, store) ==
    {bi \in (DOMAIN cfg.Builds) \X (DOMAIN store) :
        /\ store[bi[2]].Name = cfg.Builds[bi[1]]
        /\ KeyOf(store[bi[2]]) \notin Range(cfg.Skip)}

GroupNames(cfg, store) == {KeyOf(store[bi[2]]) : bi \in Grouped(cfg, store)}

GroupSize(cfg, store, k) ==
    Cardinality({bi \in Grouped(cfg, store) : KeyOf(store[bi[2]]) = k})

BuildNamesIn(cfg, store, k) ==
    {store[bi[2]].Name : bi \in {g \in Grouped(cfg, store) : KeyOf(store[g[2]]) = k}}

SizesDiffer(cfg, store) ==
    \E k1, k2 \in GroupNames(cfg, store) :
        GroupSize(cfg, store, k1) # GroupSize(cfg, store, k2)

\* newRuntime has returned.
Validated == tarPc # "idle"

\* C5: whatever the order in which the groups are ranged over, newRuntime
\* fails, with a message about missing targets, exactly when two os-arch
\* groups hold a different number of artifacts; it passes exactly when all
\* groups hold the same number.
C5_CountValidation ==
    Validated =>
        /\ (tarLog.diag.msg # "") = SizesDiffer(tar, tarLog.before)
        /\ tarLog.diag.msg # "" =>
              /\ tarPc = "failed"
              /\ tarErr = tarLog.diag.msg
              /\ HasPrefix(tarLog.diag.msg, "build ")
              /\ context.Artifacts = tarLog.before

\* newRuntime has failed on two groups of different sizes.
C5_Witness ==
    /\ tarPc = "failed"
    /\ tarLog.diag.msg # ""
    /\ Cardinality(GroupNames(tar, tarLog.before)) = 2
    /\ SizesDiffer(tar, tarLog.before)

\* C6 as stated: with zero os-arch groups Tar.Run fails with "no builds
\* found" and the store is left as it was.
C6_NoBuildsFound ==
    (Validated /\ GroupNames(tar, tarLog.before) = {}) =>
        /\ tarPc = "failed"
        /\ tarErr = "no builds found"
        /\ context.Artifacts = tarLog.before

\* C7 as stated: when newRuntime returns no error, all os-arch groups hold
\* the same set of build names.
C7_SameBuildNames ==
    (Validated /\ tarLog.diag.msg = "") =>
        \A k1, k2 \in GroupNames(tar, tarLog.before) :
            BuildNamesIn(tar, tarLog.before, k1) = BuildNamesIn(tar, tarLog.before, k2)

\* C7, amended: when newRuntime returns no error, the runtime's os-arch
\* groups all hold the same number of artifacts; the artifacts are those of
\* the store that Builds names, and nothing is said about which build names
\* a group holds.
C7_SameNumberOfArtifacts ==
    (Validated /\ tarLog.diag.msg = "") =>
        /\ DOMAIN targets = GroupNames(tar, tarLog.before)
        /\ \A k1, k2 \in DOMAIN targets : Len(targets[k1]) = Len(targets[k2])
        /\ \A k \in DOMAIN targets :
              /\ Len(targets[k]) = GroupSize(tar, tarLog.before, k)
              /\ \A i \in DOMAIN targets[k] :
                    /\ KeyOf(targets[k][i]) = k
                    /\ targets[k][i].Name \in Range(tar.Builds)

\* Validation has passed on two groups of one artifact each, of different
\* builds.
C7_Witness ==
    /\ Validated
    /\ tarLog.diag.msg = ""
    /\ \E k1, k2 \in DOMAIN targets :
          /\ Len(targets[k1]) = 1
          /\ Len(targets[k2]) = 1
          /\ targets[k1][1].Name # targets[k2][1].Name

\* C8 as stated: when the group sizes differ, the group reported as
\* deficient is the smaller of the two compared, and what is reported as
\* missing are the build names the other group holds and the deficient one
\* does not.
C8_ReportsMissingBuilds ==
    (Validated /\ tarLog.diag.msg # "") =>
        /\ GroupSize(tar, tarLog.before, tarLog.diag.bad)
              < GroupSize(tar, tarLog.before, tarLog.diag.good)
        /\ Range(tarLog.diag.reported)
              = BuildNamesIn(tar, tarLog.before, tarLog.diag.good)
                  \ BuildNamesIn(tar, tarLog.before, tarLog.diag.bad)

\* The output path of a target, written out for each configuration: the
\* target directory and the rendered Output, cleaned.
ExpectedOutput(cfg, os, arch) ==
    IF cfg.Output = "all.tar" THEN "dist/all.tar"
    ELSE IF cfg.Name = "bundle" THEN "dist/out/" \o os \o "_" \o arch \o ".tar.gz"
    ELSE "dist/proj-1.0-" \o os \o "-" \o arch \o ".tar"

ExpectedArchive(cfg, pl) ==
    [Name |-> cfg.Name, OS |-> pl[1], Arch |-> pl[2], Format |-> 4,
     Filename |-> ExpectedOutput(cfg, pl[1], pl[2]),
     Location |-> ExpectedOutput(cfg, pl[1], pl[2])]

GroupPlatforms(cfg, store) ==
    {pl \in Platforms : pl[1] \o "-" \o pl[2] \in GroupNames(cfg, store)}

\* C9: after a successful Tar.Run the store is the store before the run
\* followed by one new artifact per os-arch group, of format tar, named as
\* the module is configured, with the group's platform and with filename and
\* location both the group's output path.
C9_StoreAfterRun ==
    (tarPc = "done" /\ tarErr = "") =>
        LET before == tarLog.before
            after == context.Artifacts
            groups == GroupPlatforms(tar, before)
            added == Len(after) - Len(before)
        IN  /\ added = Cardinality(groups)
            /\ SubSeq(after, 1, Len(before)) = before
            /\ \A pl \in groups :
                  \E i \in (Len(before) + 1)..Len(after) :
                      after[i] = ExpectedArchive(tar, pl)
            /\ \A i \in (Len(before) + 1)..Len(after) :
                  \E pl \in groups : after[i] = ExpectedArchive(tar, pl)

\* A run of the gzip configuration over two groups has ended, the store
\* holding two artifacts before it.
C9_Witness ==
    /\ tarPc = "done"
    /\ tarErr = ""
    /\ tar.Name = "bundle"
    /\ Len(tarLog.before) >= 2
    /\ Cardinality(GroupPlatforms(tar, tarLog.before)) = 2
    /\ Len(context.Artifacts) = Len(tarLog.before) + 2

\* The last target was written, and for one of its files the bytes copied
\* were not the bytes its header announced.
SizeMismatch ==
    /\ "writes" \in DOMAIN tarLog.target
    /\ \E i \in DOMAIN tarLog.target.writes :
          tarLog.target.writes[i].delivered # tarLog.target.writes[i].reported

\* C10 as stated: a target one of whose files delivered a number of bytes
\* other than the size in its header fails, and no artifact is added for it.
C10_SizeMismatchFails ==
    SizeMismatch =>
        /\ tarLog.target.err # ""
        /\ tarPc = "failed"
        /\ context.Artifacts = tarLog.target.storeBefore

(***************************************************************************)
(* The entries of the archive the last target wrote: a directory entry is  *)
(* one whose name ends in a slash.                                         *)
(***************************************************************************)
TargetWritten == "entries" \in DOMAIN tarLog.target

IsDirEntry(name) == Len(name) > 0 /\ SubSeq(name, Len(name), Len(name)) = "/"

\* The directory entries a file entry needs: its name up to each slash.
DirEntriesFor(name) == {SubSeq(name, 1, k) : k \in Occurrences(name, "/", 1)}

\* C11: in the entries written to one target's archive every directory
\* entry appears at most once, every file entry comes after a directory
\* entry for each of its ancestors, the ancestors root-most first, and a
\* file at the root of the archive needs none; when the target was written
\* without error there is no directory entry but those of the files.
C11_DirectoryEntries ==
    TargetWritten =>
        LET entries == tarLog.target.entries
        IN  /\ \A i, j \in DOMAIN entries :
                  (IsDirEntry(entries[i]) /\ entries[i] = entries[j]) => i = j
            /\ \A i \in DOMAIN entries :
                  ~IsDirEntry(entries[i]) =>
                      \A d \in DirEntriesFor(entries[i]) :
                          \E j \in 1..(i - 1) :
                              /\ entries[j] = d
                              /\ \A shorter \in DirEntriesFor(d) \ {d} :
                                    \E k \in 1..(j - 1) : entries[k] = shorter
            /\ tarLog.target.err = "" =>
                  \A j \in DOMAIN entries :
                      IsDirEntry(entries[j]) =>
                          \E i \in DOMAIN entries :
                              /\ ~IsDirEntry(entries[i])
                              /\ entries[j] \in DirEntriesFor(entries[i])

\* A target was written with two artifacts that share both their ancestor
\* directories and a matched file that shares the first of them.
C11_Witness ==
    /\ TargetWritten
    /\ tarLog.target.err = ""
    /\ tarLog.target.entries = <<"pkg/", "pkg/linux-amd64/", "pkg/linux-amd64/cli",
                                 "pkg/linux-amd64/server", "pkg/README.md">>

\* A target was written with a file at the root of the archive and no
\* directory entry before it.
C11_RootFileReached ==
    /\ TargetWritten
    /\ tarLog.target.err = ""
    /\ tarLog.target.entries = <<"linux-amd64/", "linux-amd64/server", "README.md">>

(***************************************************************************)
(* The pipeline LoadBuildPipeline returns, against the document it read.   *)
(***************************************************************************)
Loaded == loadPc = "done"

\* The first modules of the stage's container are the document's entries
\* for the stage, in the document's order, each decoded from its entry.
DeclaredFirst(s) ==
    /\ Len(document[s]) <= Len(pipeline[s].Modules)
    /\ \A i \in DOMAIN document[s] :
          /\ pipeline[s].Modules[i].Type = getType(document[s][i]).itemType
          /\ pipeline[s].Modules[i].Pluggable.decoded

\* C12 as stated: the containers of the pipeline LoadBuildPipeline returns
\* hold, for each stage, the declared entries in source order and exactly
\* as many modules as were declared.
C12_ExactlyDeclared ==
    Loaded =>
        \A s \in StageSet :
            DeclaredFirst(s) /\ Len(pipeline[s].Modules) = Len(document[s])

\* C12, amended: the declared entries of each stage are the first modules
\* of its container, in source order; the build and publish containers hold
\* nothing else, and the setup container holds after them only injected
\* default modules, none of a type the document declared for setup.
C12_DeclaredThenDefaults ==
    Loaded =>
        /\ \A s \in StageSet : DeclaredFirst(s)
        /\ \A s \in StageSet \ {"setup"} : Len(pipeline[s].Modules) = Len(document[s])
        /\ \A i \in (Len(document["setup"]) + 1)..Len(pipeline["setup"].Modules) :
              /\ ~pipeline["setup"].Modules[i].Pluggable.decoded
              /\ ("setup:" \o pipeline["setup"].Modules[i].Type) \in Range(DefaultKinds)
              /\ \A j \in DOMAIN document["setup"] :
                    getType(document["setup"][j]).itemType
                        # pipeline["setup"].Modules[i].Type

\* A document declaring dump and then env for setup was loaded, and the
\* setup container holds more than these two.
C12_Witness ==
    /\ Loaded
    /\ Len(document["setup"]) = 2
    /\ getType(document["setup"][1]).itemType = "dump"
    /\ getType(document["setup"][2]).itemType = "env"
    /\ Len(pipeline["setup"].Modules) > 2
    /\ Len(document["build"]) = 2

(***************************************************************************)
(* The kind an Add on a container must use, from the registry alone.       *)
(***************************************************************************)
OwnKind == lastCall.before.Stage \o ":" \o lastCall.itemType

WildcardKind == "*:" \o lastCall.itemType

ExpectedKind == IF OwnKind \in registry THEN OwnKind ELSE WildcardKind

\* C13: an Add of type T on the container of stage S makes its module with
\* the factory of "S:T" whenever that is registered and with the factory of
\* "*:T" only when "S:T" is not registered and "*:T" is; the kind it marks
\* loaded is that kind and no other, and the once guard fails exactly when
\* that kind was loaded before.
C13_KindPrecedence ==
    lastCall.op = "Add" =>
        /\ lastCall.err = "" =>
              /\ ExpectedKind \in registry
              /\ Len(mod.Modules) = Len(lastCall.before.Modules) + 1
              /\ mod.Modules[Len(mod.Modules)].Pluggable.factory = ExpectedKind
              /\ mod.loaded = lastCall.before.loaded \cup {ExpectedKind}
        /\ lastCall.err # "" => mod = lastCall.before
        /\ (lastCall.once /\ ExpectedKind \in registry) =>
              ((lastCall.err = "module " \o ExpectedKind \o " already loaded")
                  = (ExpectedKind \in lastCall.before.loaded))
        /\ (OwnKind \notin registry /\ WildcardKind \notin registry) =>
              lastCall.err = "unknown module " \o OwnKind

\* With both "build:dump" and "*:dump" registered, an Add of dump on the
\* build container was made by the factory of "build:dump".
C13_Witness ==
    /\ lastCall.op = "Add"
    /\ lastCall.err = ""
    /\ lastCall.before.Stage = "build"
    /\ lastCall.itemType = "dump"
    /\ {"build:dump", "*:dump"} \subseteq registry
    /\ mod.Modules[Len(mod.Modules)].Pluggable.factory = "build:dump"
    /\ "*:dump" \notin mod.loaded

\* With "build:dump" not registered, an Add of dump on the build container
\* was made by the factory of "*:dump".
C13_WildcardReached ==
    /\ lastCall.op = "Add"
    /\ lastCall.err = ""
    /\ lastCall.before.Stage = "build"
    /\ lastCall.itemType = "dump"
    /\ "build:dump" \notin registry
    /\ mod.Modules[Len(mod.Modules)].Pluggable.factory = "*:dump"

(***************************************************************************)
(* StoreSpec: any sequence of Artifacts.Add and Artifacts.ByName calls on  *)
(* one artifact store (context.Artifacts).  lastCall records the last      *)
(* call: the store it was made on, its argument and, for ByName, the       *)
(* result.                                                                 *)
(***************************************************************************)
\* The artifacts added: build outputs and archives.
StoreArtifacts ==
    BuildArtifacts
    \cup {Artifact("archive", "linux", "amd64", FormatTar, "dist/all.tar", "dist/all.tar")}

\* The names searched for: those of the artifacts and one that none has.
StoreNames == {a.Name : a \in StoreArtifacts} \cup {"default"}

StoreInit ==
    /\ registry = RegUniverse
    /\ mod = NewModules("build")
    /\ lastCall = NoCall
    /\ pipeline = <<>>
    /\ loadPc = "idle"
    /\ loadPos = 0
    /\ loadErr = ""
    /\ document = <<>>
    /\ context = NewContext(TRUE, <<>>)
    /\ runPc = "idle"
    /\ runStage = 0
    /\ runMod = 0
    /\ runErr = ""
    /\ runLog = NoRunLog
    /\ tar = NoTar
    /\ tarPc = "idle"
    /\ tarErr = ""
    /\ targets = EmptyMap
    /\ pending = {}
    /\ tarLog = NoTarLog

StoreAdd(artifact) ==
    /\ Len(context.Artifacts) < MaxStore
    /\ context' = [context EXCEPT !.Artifacts = ArtifactsAdd(@, artifact)]
    /\ lastCall' = [op |-> "Artifacts.Add", before |-> context.Artifacts,
                    artifact |-> artifact]
    /\ UNCHANGED <<registry, mod, loadVars, runPc, runStage, runMod, runErr, runLog,
                   tarVars>>

StoreByName(name) ==
    /\ lastCall' = [op |-> "Artifacts.ByName", before |-> context.Artifacts,
                    name |-> name, result |-> ByName(context.Artifacts, name)]
    /\ UNCHANGED <<registry, mod, loadVars, runVars, tarVars>>

StoreNext ==
    \/ \E artifact \in StoreArtifacts : StoreAdd(artifact)
    \/ \E name \in StoreNames : StoreByName(name)

StoreSpec == StoreInit /\ [][StoreNext]_vars

\* result holds the elements of store at the positions idx, in the order of
\* the positions.
SelectedInOrder(result, store, idx) ==
    /\ Len(result) = Cardinality(idx)
    /\ \E f \in [DOMAIN result -> idx] :
          /\ \A i, j \in DOMAIN result : i < j => f[i] < f[j]
          /\ \A i \in DOMAIN result : result[i] = store[f[i]]

\* C14: after any sequence of calls, an Add has put its artifact after all
\* the artifacts the store held, which are as they were; a ByName has left
\* the store as it was and returned exactly the artifacts of that name, in
\* the order in which the store holds them.
C14_StoreAppendOnly ==
    /\ lastCall.op = "Artifacts.Add" =>
          /\ Len(context.Artifacts) = Len(lastCall.before) + 1
          /\ \A i \in DOMAIN lastCall.before : context.Artifacts[i] = lastCall.before[i]
          /\ context.Artifacts[Len(context.Artifacts)] = lastCall.artifact
    /\ lastCall.op = "Artifacts.ByName" =>
          /\ context.Artifacts = lastCall.before
          /\ SelectedInOrder(lastCall.result, lastCall.before,
                             {i \in DOMAIN lastCall.before :
                                 lastCall.before[i].Name = lastCall.name})

\* ByName("server") on a store of three artifacts returned the first and
\* the third, of different platforms.
C14_Witness ==
    /\ lastCall.op = "Artifacts.ByName"
    /\ lastCall.name = "server"
    /\ Len(lastCall.before) = 3
    /\ lastCall.before[2].Name = "cli"
    /\ Len(lastCall.result) = 2
    /\ lastCall.result[1] # lastCall.result[2]

(***************************************************************************)
(* RunFairSpec: the run of RunSpec, with every module's Run returning and  *)
(* the runner taking its next step.                                        *)
(***************************************************************************)
RunFairSpec == RunSpec /\ WF_vars(RunNext)

StageIndex(stage) == CHOOSE i \in DOMAIN StageNames : StageNames[i] = stage

RunEnded == runPc \in {"done", "failed"}

\* The stages were entered once each, in the order of the stage list.
OnePassInOrder ==
    /\ Len(runLog.entries) <= Len(StageNames)
    /\ \A k \in DOMAIN runLog.entries : runLog.entries[k].stage = StageNames[k]
    /\ \A i, j \in DOMAIN runLog.executed :
          i < j => StageIndex(runLog.executed[i].stage) <= StageIndex(runLog.executed[j].stage)
    /\ \A k \in DOMAIN runLog.executed :
          StageIndex(runLog.executed[k].stage) <= Len(runLog.entries)

\* A module's error ends the run in the stage of that module.
StopsAtFirstFailure ==
    /\ \A k \in DOMAIN runLog.executed :
          runLog.executed[k].err # "" =>
              /\ k = Len(runLog.executed)
              /\ runPc = "failed"
              /\ Len(runLog.entries) = StageIndex(runLog.executed[k].stage)
    /\ runPc = "failed" =>
          /\ runLog.executed # <<>>
          /\ runLog.executed[Len(runLog.executed)].err # ""
    /\ runPc = "done" => Len(runLog.entries) = Len(StageNames)

\* The publish stage is entered after every module of setup and of build
\* has run, is skipped exactly when the publish flag is off at that moment,
\* and its modules run only when it was not skipped; a run that ends well
\* then has run all of them.
PublishDecidedOnEntry ==
    /\ Len(runLog.entries) = 3 =>
          /\ \A s \in {"setup", "build"} :
                Len(ExecutedOf(s)) = Len(pipeline[s].Modules)
          /\ runLog.entries[3].skipped = ~runLog.entries[3].before.Publish
          /\ runLog.entries[3].before.Artifacts
                = SubSeq(runLog.produced, 1, Len(runLog.entries[3].before.Artifacts))
    /\ ExecutedOf("publish") # <<>> =>
          /\ Len(runLog.entries) = 3
          /\ runLog.entries[3].before.Publish
    /\ runPc = "done" =>
          Len(ExecutedOf("publish"))
              = IF runLog.entries[3].before.Publish
                THEN Len(pipeline["publish"].Modules) ELSE 0

\* C15: the pipeline makes exactly one pass through setup, build, publish
\* in this order and stops at the first failing stage; the publish stage's
\* skip predicate is evaluated on entry to publish, after the modules of
\* setup and build, and the publish modules run if and only if the publish
\* flag is on at that moment; the pass comes to its end.
C15_OnePass ==
    /\ [](OnePassInOrder /\ StopsAtFirstFailure /\ PublishDecidedOnEntry)
    /\ <>RunEnded

\* A run that began with the publish flag on has ended with publish
\* skipped, a module of setup or build having turned the flag off.
C15_Witness ==
    /\ runPc = "done"
    /\ runLog.entries[1].before.Publish
    /\ ~runLog.entries[3].before.Publish
    /\ runLog.entries[3].skipped
    /\ Len(pipeline["publish"].Modules) = 2
    /\ ExecutedOf("publish") = <<>>
    /\ Len(ExecutedOf("build")) = 2

(***************************************************************************)
(* The groups newRuntime built, against the store and the configuration.   *)
(***************************************************************************)
\* newRuntime returned a runtime.
RuntimeBuilt == Validated /\ tarLog.diag.msg = ""

\* How often a sequence holds an artifact.
TimesIn(arts, a) == Cardinality({i \in DOMAIN arts : arts[i] = a})

Selected(cfg, a) == a.Name \in Range(cfg.Builds) /\ KeyOf(a) \notin Range(cfg.Skip)

\* The groups hold nothing but selected artifacts of the store, each under
\* its own key, and no group is empty.
NothingElseGrouped ==
    \A k \in DOMAIN targets :
        /\ targets[k] # <<>>
        /\ k \notin Range(tar.Skip)
        /\ \A j \in DOMAIN targets[k] :
              /\ KeyOf(targets[k][j]) = k
              /\ targets[k][j].Name \in Range(tar.Builds)
              /\ TimesIn(tarLog.before, targets[k][j]) > 0

\* C16 as stated: every artifact of the store whose name is in Builds and
\* whose os-arch is not in Skip is in the group of its os-arch exactly once
\* (as often as the store holds it), and the groups hold nothing else.
C16_GroupedExactlyOnce ==
    RuntimeBuilt =>
        /\ \A i \in DOMAIN tarLog.before :
              Selected(tar, tarLog.before[i]) =>
                  /\ KeyOf(tarLog.before[i]) \in DOMAIN targets
                  /\ TimesIn(targets[KeyOf(tarLog.before[i])], tarLog.before[i])
                        = TimesIn(tarLog.before, tarLog.before[i])
        /\ NothingElseGrouped

\* What the code does: an artifact is in its group once for every entry of
\* Builds that names it.
C16_GroupedOncePerBuildsEntry ==
    RuntimeBuilt =>
        /\ \A i \in DOMAIN tarLog.before :
              Selected(tar, tarLog.before[i]) =>
                  /\ KeyOf(tarLog.before[i]) \in DOMAIN targets
                  /\ TimesIn(targets[KeyOf(tarLog.before[i])], tarLog.before[i])
                        = TimesIn(tarLog.before, tarLog.before[i])
                          * TimesIn(tar.Builds, tarLog.before[i].Name)
        /\ NothingElseGrouped

\* C17 as stated: the diagnostic of newRuntime is the same for every order
\* in which the map of groups may be ranged over: whatever order the run
\* took, every other order gives the error it returned (the same deficient
\* group, the same well-formed group, the same message).
C17_SameDiagnosticForEveryOrder ==
    Validated =>
        \A order \in Orders(GroupNames(tar, tarLog.before)) :
            newRuntime(tar, NewContext(TRUE, tarLog.before), order).diag = tarLog.diag

\* With at most two groups the order makes no difference.
C17_TwoGroupsDeterministic ==
    (Validated /\ Cardinality(GroupNames(tar, tarLog.before)) <= 2) =>
        \A order \in Orders(GroupNames(tar, tarLog.before)) :
            newRuntime(tar, NewContext(TRUE, tarLog.before), order).diag = tarLog.diag

\* The last target's output file was created and singleTarget.run returned.
TargetReturned ==
    /\ TargetWritten
    /\ tarLog.target.events # <<>>
    /\ tarPc # "hung"

\* How often an event is logged, and its first position.
TimesLogged(e) == TimesIn(tarLog.target.events, e)

PositionOf(e) == MinOf({i \in DOMAIN tarLog.target.events : tarLog.target.events[i] = e})

\* C18: on every return of singleTarget.run after the output file was
\* created (success, a failing artifact write, a failing write of a matched
\* file) the tar writer, the compression stream and the output file are
\* each closed exactly once, after all three were acquired, the tar writer
\* first, then the compression stream, then the file: the reverse of the
\* order in which they were acquired.
C18_ReleaseOrder ==
    TargetReturned =>
        /\ \A e \in {"create file", "open compression", "open tar",
                     "close tar", "close compression", "close file"} :
              TimesLogged(e) = 1
        /\ Len(tarLog.target.events) = 6
        /\ PositionOf("create file") < PositionOf("open compression")
        /\ PositionOf("open compression") < PositionOf("open tar")
        /\ PositionOf("open tar") < PositionOf("close tar")
        /\ PositionOf("close tar") < PositionOf("close compression")
        /\ PositionOf("close compression") < PositionOf("close file")

\* A target failed on a matched file after its artifacts were written, and
\* singleTarget.run returned.
C18_Witness ==
    /\ TargetReturned
    /\ tarLog.target.err
          = "writing dist/all.tar: can't stat file README.md: no such file or directory"
    /\ Len(tarLog.target.entries) >= 3
    /\ tarPc = "failed"

(***************************************************************************)
(* The default modules of LoadBuildPipeline, against the document.         *)
(***************************************************************************)
\* The entries of the document's setup key that declare the kind.
DeclaredOf(kind) ==
    {i \in DOMAIN document["setup"] :
        "setup:" \o getType(document["setup"][i]).itemType = kind}

\* The modules of the setup container made by the kind's factory.
InstancesOf(kind) ==
    {i \in DOMAIN pipeline["setup"].Modules :
        pipeline["setup"].Modules[i].Pluggable.factory = kind}

\* The modules the kind's injection added: those after the declared ones.
InjectedOf(kind) == {i \in InstancesOf(kind) : i > Len(document["setup"])}

\* C19: the injection of the four default kinds is best-effort and
\* load-once.  Once the document is decoded LoadBuildPipeline cannot fail
\* any more; in the pipeline it returns, a default kind the document
\* declared has the declared instances and no injected one, a default kind
\* the document did not declare has one injected instance when it is
\* registered and none when it is not, and an injected module is made from
\* the factory's defaults, with nothing decoded into it.
C19_BestEffortLoadOnce ==
    /\ loadPc \in {"defaults", "done"} => loadErr = ""
    /\ Loaded =>
          \A k \in Range(DefaultKinds) :
              /\ DeclaredOf(k) # {} =>
                    InstancesOf(k) = DeclaredOf(k) /\ InjectedOf(k) = {}
              /\ DeclaredOf(k) = {} /\ k \in registry =>
                    Cardinality(InstancesOf(k)) = 1 /\ InjectedOf(k) = InstancesOf(k)
              /\ DeclaredOf(k) = {} /\ k \notin registry => InstancesOf(k) = {}
              /\ \A i \in InjectedOf(k) : ~pipeline["setup"].Modules[i].Pluggable.decoded

\* A document declaring env for setup was loaded with a registry lacking
\* setup:project: the injection of setup:env failed (already loaded), the
\* one of setup:project failed (unknown), the other two were added.
C19_Witness ==
    /\ Loaded
    /\ loadErr = ""
    /\ DeclaredOf("setup:env") = {1}
    /\ "setup:project" \notin registry
    /\ InstancesOf("setup:env") = {1}
    /\ InstancesOf("setup:project") = {}
    /\ InstancesOf("setup:git_tag") = {2}
    /\ InstancesOf("setup:skip_publish") = {3}

(***************************************************************************)
(* The end of writeDirs' ancestor loop.                                    *)
(***************************************************************************)
\* The in-archive paths of the last target's artifacts.
TargetPaths ==
    {ArchivePathOf(singleTarget(tar, context, targets, tarLog.target.osarch).CommonDir,
                   TrimPrefix(a.Filename, a.Location \o "/")) :
        a \in Range(targets[tarLog.target.osarch])}

\* C20 as stated: for every path passed to writeDirs, an absolute one
\* included, the loop collecting the ancestors ends and Tar.Run returns: no
\* run is left inside that loop.
C20_WriteDirsTerminates == tarPc # "hung"

\* What the code does: the loop ends for the relative paths, and for no
\* absolute one.
C20_EndsIffRelative ==
    TargetWritten /\ tarLog.target.events # <<>> =>
        \A ap \in TargetPaths :
            /\ Head(ap.dir) # "/" => ~ap.anc.hung
            /\ Head(ap.dir) = "/" => ap.anc.hung /\ tarPc = "hung"

=============================================================================
